---- MODULE Spec2Model ----
(***************************************************************************)
(* Order/tracking reconciliation of the Etsy management application:       *)
(* the /bulk_update and /upload_excel request handlers (app.py), the       *)
(* spreadsheet ledger service (services/google_sheets_service.py) and the  *)
(* spreadsheet-file reader (services/excel_service.py).                    *)
(*                                                                         *)
(* Text values (order numbers, tracking numbers, cells) are sequences of   *)
(* one-character strings, so that strip(), startswith('#'), [1:],          *)
(* split(' ', 1) and replace('#', '') are computed as Python computes      *)
(* them.  Fixed literals (header names, the link prefix, dates) are single *)
(* elements of such a sequence.                                            *)
(***************************************************************************)
EXTENDS Integers, Sequences, FiniteSets, TLC

VARIABLES sheet, checkbox, today, call, received, norm,
          excel,
          carriers, carriers_file, carrier_result,
          todos_file, todo_call, todo_log,
          products_file, image_files, product_result

\* the ledger, the requests that reconcile it, and the normalisation check
ledgerVars == <<sheet, checkbox, today, call, received, norm>>

\* the spreadsheet-file reader and the carrier, todo and product services
serviceVars == <<excel, carriers, carriers_file, carrier_result,
                 todos_file, todo_call, todo_log,
                 products_file, image_files, product_result>>

vars == <<ledgerVars, serviceVars>>

(***************************************************************************)
(* Bounds of the model.                                                    *)
(***************************************************************************)
MaxLines == 2       \* lines in one pasted text / rows in one uploaded file
MaxReceived == 3    \* lines and file rows received in one behaviour
MaxDay == 2         \* calendar days covered by one behaviour
MaxTicked == 1      \* checkboxes the user has ticked at one time
MaxTokLen == 4      \* length of the order tokens of the normalisation check

Procs == {1, 2}     \* request slots (a second one is used by overlapping requests)
SeqProcs == {1}     \* the slot used when requests do not overlap

(***************************************************************************)
(* Python string operations on sequences of characters.                    *)
(***************************************************************************)
IsSpace(c) == c = " "

RECURSIVE LStrip(_)
LStrip(s) == IF s # <<>> /\ IsSpace(Head(s)) THEN LStrip(Tail(s)) ELSE s

RECURSIVE RStrip(_)
RStrip(s) == IF s # <<>> /\ IsSpace(s[Len(s)])
             THEN RStrip(SubSeq(s, 1, Len(s) - 1)) ELSE s

\* str.strip()
Strip(s) == RStrip(LStrip(s))

\* str.startswith('#')
StartsWithHash(s) == s # <<>> /\ Head(s) = "#"

\* if s.startswith('#'): s = s[1:]
StripOneHash(s) == IF StartsWithHash(s) THEN Tail(s) ELSE s

\* str.replace('#', '')
ReplaceHash(s) == SelectSeq(s, LAMBDA c : c # "#")

\* position of the first ' ' of s, 0 when there is none
FirstSpace(s) ==
    IF \E i \in 1..Len(s) : IsSpace(s[i])
    THEN CHOOSE i \in 1..Len(s) :
            IsSpace(s[i]) /\ \A j \in 1..(i - 1) : ~IsSpace(s[j])
    ELSE 0

\* str.split(' ', 1)
Split1(s) ==
    LET i == FirstSpace(s)
    IN  IF i = 0 THEN <<s>>
        ELSE <<SubSeq(s, 1, i - 1), SubSeq(s, i + 1, Len(s))>>

(***************************************************************************)
(* The sheet: row 1 is the header, the data rows follow.  A row is the     *)
(* sequence of its five cells A..E.                                        *)
(***************************************************************************)
ColA == 1
ColB == 2
ColC == 3
ColD == 4
ColE == 5

Header == << <<"Order Number">>, <<"Tracking Number">>, <<"Date Added">>,
             <<"Tracking Link">>, <<"Completed">> >>

CanonicalColumns == << <<"order_number">>, <<"tracking_number">>, <<"date">>,
                       <<"tracking_link">>, <<"completed">> >>

\* df.rename(columns=column_mapping)
RenameColumn(c) ==
    CASE c = <<"Order Number">>    -> <<"order_number">>
      [] c = <<"Tracking Number">> -> <<"tracking_number">>
      [] c = <<"Date Added">>      -> <<"date">>
      [] c = <<"Tracking Link">>   -> <<"tracking_link">>
      [] c = <<"Completed">>       -> <<"completed">>
      [] OTHER                     -> c

\* the empty DataFrame returned for an empty sheet and for a failed read
EmptyFrame == [columns |-> CanonicalColumns, rows |-> <<>>]

\* a DataFrame that keeps the header row among its data rows
FrameOfWithHeader(values) ==
    IF values = <<>> THEN EmptyFrame
    ELSE [columns |-> [i \in 1..Len(values[1]) |-> RenameColumn(values[1][i])],
          rows    |-> values]

\* the DataFrame _get_existing_data builds from the values of range A:E
FrameOf(values) ==
    IF values = <<>> THEN EmptyFrame
    ELSE [columns |-> [i \in 1..Len(values[1]) |-> RenameColumn(values[1][i])],
          rows    |-> Tail(values)]

\* DataFrame.empty
FrameEmpty(df) == df.rows = <<>> \/ df.columns = <<>>

\* position of a column of the DataFrame, 0 when df[name] raises KeyError
ColumnIndex(df, name) ==
    IF \E i \in 1..Len(df.columns) : df.columns[i] = name
    THEN CHOOSE i \in 1..Len(df.columns) :
            df.columns[i] = name /\ \A j \in 1..(i - 1) : df.columns[j] # name
    ELSE 0

\* datetime.now().strftime('%d-%m-%Y')
strftime(d) == <<ToString(d) \o "-11-2026">>

\* a boolean cell as the sheet stores and returns it
BoolCell(b) == IF b THEN <<"TRUE">> ELSE <<"FALSE">>

\* a link that is the tracking number alone
GenerateTrackingLinkNoPrefix(tracking_number) == tracking_number

\* _generate_tracking_link
LinkPrefix == <<"https://parcelsapp.com/en/tracking/">>

GenerateTrackingLink(tracking_number) ==
    IF tracking_number = <<>> THEN <<>> ELSE LinkPrefix \o tracking_number

(***************************************************************************)
(* app.bulk_update: parsing of the pasted text and in-batch dedup.         *)
(***************************************************************************)
\* one iteration of the parsing loop: "blank" (skipped silently), "error"
\* (appended to parse_errors) or "pair" (appended to order_tracking_pairs)
ParseLine(raw) ==
    LET line == Strip(raw)
        parts == Split1(line)
    IN  IF line = <<>> THEN [kind |-> "blank", pair |-> <<>>]
        ELSE IF Len(parts) # 2 THEN [kind |-> "error", pair |-> <<>>]
        ELSE LET order_number == StripOneHash(Strip(parts[1]))
                 tracking_number == Strip(parts[2])
             IN  IF order_number = <<>> \/ tracking_number = <<>>
                 THEN [kind |-> "error", pair |-> <<>>]
                 ELSE [kind |-> "pair", pair |-> <<order_number, tracking_number>>]

\* a parsing loop that stops at the first line it cannot parse
RECURSIVE ParsedPairsUntilError(_)
ParsedPairsUntilError(lines) ==
    IF lines = <<>> THEN <<>>
    ELSE LET r == ParseLine(Head(lines))
         IN  IF r.kind = "error" THEN <<>>
             ELSE (IF r.kind = "pair" THEN <<r.pair>> ELSE <<>>)
                      \o ParsedPairsUntilError(Tail(lines))

\* order_tracking_pairs, in line order
RECURSIVE ParsedPairs(_)
ParsedPairs(lines) ==
    IF lines = <<>> THEN <<>>
    ELSE LET r == ParseLine(Head(lines))
         IN  (IF r.kind = "pair" THEN <<r.pair>> ELSE <<>>) \o ParsedPairs(Tail(lines))

\* a parsing loop that reports only the lines without a separator
ParseErrorCountSplitOnly(lines) ==
    Cardinality({i \in 1..Len(lines) :
                    Strip(lines[i]) # <<>> /\ Len(Split1(Strip(lines[i]))) # 2})

\* len(parse_errors)
ParseErrorCount(lines) ==
    Cardinality({i \in 1..Len(lines) : ParseLine(lines[i]).kind = "error"})

\* number of lines that pass "if not line: continue"
NonBlankCount(lines) ==
    Cardinality({i \in 1..Len(lines) : ParseLine(lines[i]).kind # "blank"})

\* "if not bulk_orders_text" after request.form.get(...).strip()
TextEmpty(lines) == \A i \in 1..Len(lines) : Strip(lines[i]) = <<>>

\* keys of a dict filled in sequence order: first appearance fixes the position
RECURSIVE DictKeys(_)
DictKeys(pairs) ==
    IF pairs = <<>> THEN <<>>
    ELSE LET front == DictKeys(SubSeq(pairs, 1, Len(pairs) - 1))
             k == pairs[Len(pairs)][1]
         IN  IF \E i \in 1..Len(front) : front[i] = k THEN front
             ELSE Append(front, k)

\* value of key k of that dict: the last assignment wins
DictValue(pairs, k) ==
    LET last == CHOOSE i \in 1..Len(pairs) :
                    pairs[i][1] = k /\ \A j \in (i + 1)..Len(pairs) : pairs[j][1] # k
    IN  pairs[last][2]

\* final_pairs = list(unique_pairs.items())
UniquePairs(pairs) ==
    LET keys == DictKeys(pairs)
    IN  [i \in 1..Len(keys) |-> <<keys[i], DictValue(pairs, keys[i])>>]

(***************************************************************************)
(* GoogleSheetsService.bulk_update_orders: the classification loop.        *)
(***************************************************************************)
\* a cleaning that removes every '#', as the stored cells are cleaned
CleanOrderNumberAllHashes(order_number) == ReplaceHash(Strip(order_number))

\* clean_order_number of an input pair
CleanOrderNumber(order_number) == StripOneHash(Strip(order_number))

\* existing_df_clean['clean_order'] of one ledger cell
CleanExisting(cell) == ReplaceHash(Strip(cell))

\* "if not order_number or not tracking_number"
PairSkipped(pair) == pair[1] = <<>> \/ pair[2] = <<>>

\* a lookup that takes the last matching row instead of the first
ExistingRowIdxLast(df, clean) ==
    LET c == ColumnIndex(df, <<"order_number">>)
        hit(i) == CleanExisting(df.rows[i][c]) = clean
    IN  IF FrameEmpty(df) THEN 0
        ELSE IF \E i \in 1..Len(df.rows) : hit(i)
        THEN CHOOSE i \in 1..Len(df.rows) :
                hit(i) /\ \A j \in (i + 1)..Len(df.rows) : ~hit(j)
        ELSE 0

\* existing_df_clean[mask].index[0], as a 1-based position; 0 when mask.any() is false
ExistingRowIdx(df, clean) ==
    LET c == ColumnIndex(df, <<"order_number">>)
        hit(i) == CleanExisting(df.rows[i][c]) = clean
    IN  IF FrameEmpty(df) THEN 0
        ELSE IF \E i \in 1..Len(df.rows) : hit(i)
        THEN CHOOSE i \in 1..Len(df.rows) : hit(i) /\ \A j \in 1..(i - 1) : ~hit(j)
        ELSE 0

\* a row number that forgets the header row
RowNumberNoHeader(idx) == idx

\* sheet row number of the DataFrame row at 1-based position idx
\* (the code adds 2 to the 0-based pandas index)
RowNumber(idx) == idx + 1

\* existing_df['order_number'] raises KeyError: in the log line that follows
\* the read of a table that is not empty, before any pair is looked at
RaisesKeyError(df, pairs) ==
    /\ ~FrameEmpty(df)
    /\ ColumnIndex(df, <<"order_number">>) = 0

\* an update entry whose link is not derived from the new tracking number
UpdateEntryWrongLink(row, clean, tracking_number, day) ==
    [row |-> row, order_number |-> clean, tracking_number |-> tracking_number,
     date |-> strftime(day), tracking_link |-> GenerateTrackingLink(clean)]

\* the entry appended to rows_to_update
UpdateEntry(row, clean, tracking_number, day) ==
    [row |-> row, order_number |-> clean, tracking_number |-> tracking_number,
     date |-> strftime(day), tracking_link |-> GenerateTrackingLink(tracking_number)]

\* the row appended to rows_to_add
NewRow(clean, tracking_number, day) ==
    <<clean, tracking_number, strftime(day),
      GenerateTrackingLink(tracking_number), BoolCell(FALSE)>>

NoPlan == [rows_to_add |-> <<>>, rows_to_update |-> <<>>,
           added |-> 0, updated |-> 0, skipped |-> 0]

\* the loop over order_tracking_pairs
RECURSIVE Classify(_, _, _)
Classify(df, pairs, day) ==
    IF pairs = <<>> THEN NoPlan
    ELSE LET acc == Classify(df, SubSeq(pairs, 1, Len(pairs) - 1), day)
             pair == pairs[Len(pairs)]
             clean == CleanOrderNumber(pair[1])
             idx == ExistingRowIdx(df, clean)
         IN  IF PairSkipped(pair)
             THEN [acc EXCEPT !.skipped = @ + 1]
             ELSE IF idx # 0
             THEN [acc EXCEPT
                     !.rows_to_update =
                         Append(@, UpdateEntry(RowNumber(idx), clean, pair[2], day)),
                     !.updated = @ + 1]
             ELSE [acc EXCEPT
                     !.rows_to_add = Append(@, NewRow(clean, pair[2], day)),
                     !.added = @ + 1]

(***************************************************************************)
(* ExcelService.process_excel_file and the filter of append_order_data.    *)
(***************************************************************************)
\* clean_value of a file cell (an empty cell reads as NaN and becomes '')
clean_value(cell) == Strip(cell)

\* the (clean_order, tracking_number) assignments to order_data_dict, in row order
RECURSIVE ExcelAssignments(_)
ExcelAssignments(file) ==
    IF file = <<>> THEN <<>>
    ELSE LET order_number == clean_value(Head(file)[1])
             tracking_number == clean_value(Head(file)[2])
             rest == ExcelAssignments(Tail(file))
         IN  IF order_number = <<>> \/ tracking_number = <<>> THEN rest
             ELSE <<<<StripOneHash(Strip(order_number)), tracking_number>>>> \o rest

\* order_data = list(order_data_dict.values())
ProcessExcelFile(file) == UniquePairs(ExcelAssignments(file))

\* new_rows of append_order_data: orders without an order number are skipped
RECURSIVE NewRows(_, _)
NewRows(order_data, day) ==
    IF order_data = <<>> THEN <<>>
    ELSE LET order == Head(order_data)
             rest == NewRows(Tail(order_data), day)
         IN  IF order[1] = <<>> THEN rest
             ELSE <<NewRow(order[1], order[2], day)>> \o rest

\* a filter that lets every new row through
NotInExistingNone(df, rows) == rows

\* new_df[~new_df['order_number'].isin(existing_df['order_number'])]
NotInExisting(df, rows) ==
    LET c == ColumnIndex(df, <<"order_number">>)
    IN  IF FrameEmpty(df) THEN rows
        ELSE SelectSeq(rows, LAMBDA r :
                \A i \in 1..Len(df.rows) : df.rows[i][c] # r[ColA])

\* existing_df['order_number'] raises KeyError in append_order_data
AppendRaisesKeyError(df, order_data) ==
    /\ NewRows(order_data, 1) # <<>>
    /\ ~FrameEmpty(df)
    /\ ColumnIndex(df, <<"order_number">>) = 0

\* what append_order_data decides to write
AppendPlan(df, order_data, day) ==
    [NoPlan EXCEPT !.rows_to_add = NotInExisting(df, NewRows(order_data, day))]

(***************************************************************************)
(* Inputs.                                                                 *)
(***************************************************************************)
\* order tokens a user types: an order number bare, behind one '#' and
\* behind two, a lone '#', two '#' alone, a second order number, and an order
\* number that carries a '#' inside
OrderTokens ==
    { <<"1">>, <<"#", "1">>, <<"#", "#", "1">>, <<"#">>, <<"#", "#">>, <<"2">>,
      <<"1", "#">> }

\* lines of a pasted text: well-formed lines, a second tracking number for
\* order 1, a line with one token, a blank line, and a well-formed line with
\* extra white space
Lines ==
    {o \o <<" ", "A">> : o \in OrderTokens \ {<<"2">>}}
        \cup { <<"1", " ", "B">>, <<"2">>, <<" ">>,
               <<" ", "2", " ", " ", "A", " ">> }

\* the texts a request can carry
Texts == UNION {[1..n -> Lines] : n \in 1..MaxLines}

\* rows (order cell, tracking cell) of an uploaded file
FileRows ==
    { << <<"#", "1">>, <<"B">> >>, << <<"2">>, <<" ", "A">> >>, << <<>>, <<"A">> >> }

Files == UNION {[1..n -> FileRows] : n \in 1..MaxLines}

(***************************************************************************)
(* State.                                                                  *)
(*   sheet     the rows of Sheet1, header first                            *)
(*   checkbox  the sheet rows whose column E carries the BOOLEAN rule      *)
(*   today     the calendar day                                            *)
(*   call[p]   the request being served in slot p: its position (pc), the  *)
(*             handler's and the service's locals, and the external        *)
(*             operations it has issued so far (ops)                       *)
(*   received  lines and file rows received so far                         *)
(*   norm      the token of the normalisation check and its results        *)
(***************************************************************************)
IdleCall ==
    [pc |-> "idle", kind |-> "none",
     nonblank |-> 0, parse_errors |-> 0, duplicates_removed |-> 0,
     order_tracking_pairs |-> <<>>, pairs |-> <<>>,
     read_failed |-> FALSE, before |-> <<>>, existing_df |-> EmptyFrame,
     day |-> 0, plan |-> NoPlan, start_row |-> 0, end_row |-> 0, ops |-> <<>>]

\* a data row as an earlier run left it
OldRow(order, tracking) == NewRow(order, tracking, 1)

\* sheets at start-up: a blank Sheet1, the header alone, two rows
InitSheets ==
    { <<>>,
      <<Header>>,
      <<Header, OldRow(<<"2">>, <<"B">>), OldRow(<<"1">>, <<"A">>)>> }

NoResult == [ok |-> FALSE, value |-> <<>>]

NoNorm == [X |-> <<>>, plain |-> NoResult, hashed |-> NoResult, done |-> FALSE]

(***************************************************************************)
(* State of the other services.                                            *)
(*   excel           the file handed to process_excel_file and its result  *)
(*   carriers        CarrierService.carriers, the in-memory list           *)
(*   carriers_file   data/carriers.json                                    *)
(*   carrier_result  how the last CarrierService call ended                *)
(*   todos_file      data/todos.json                                       *)
(*   todo_call[p]    the TodoService call being served in slot p           *)
(*   todo_log        the ids given out, and the ids whose create_todo and  *)
(*                   delete_todo calls have returned with success          *)
(*   products_file   data/products.json                                    *)
(*   image_files     the files of static/product_images                    *)
(*   product_result  the last update_product call: its arguments, how it   *)
(*                   ended, and the persisted state it started from        *)
(***************************************************************************)
NoExcel == [file |-> <<>>, order_data |-> <<>>, done |-> FALSE]

\* an absent optional argument or field (None)
None == <<"None">>

\* _get_default_carriers, cut down to its first carrier
DefaultCarriers ==
    << [id |-> 1, carrier_name |-> <<"USPS">>, etsy_approved |-> TRUE,
        example_tracking |-> <<"9">>, alternative_text |-> None,
        is_alternative |-> FALSE] >>

\* a JSON file that holds the list data; valid is FALSE for a file that open()
\* has truncated and json.dump has not completed
JsonFile(data) == [valid |-> TRUE, data |-> data]

TruncatedFile == [valid |-> FALSE, data |-> <<>>]

\* no CarrierService call made yet; issued counts the ids handed out, before is
\* the in-memory list at the start of the last call
NoCarrierResult == [op |-> "none", raised |-> FALSE, issued |-> 1, before |-> <<>>]

IdleTodo == [pc |-> "idle", op |-> "none", id |-> 0, title |-> None, todos |-> <<>>]

\* what the TodoService calls have returned so far: the ids handed out, the
\* calls begun, and the ids whose create, update (with a title) and delete call
\* returned successfully
NoTodoLog == [issued |-> 0, calls |-> 0, created |-> {}, updated |-> {}, deleted |-> {}]

\* the product catalog at start-up: two products, each with its image file
InitialProducts ==
    << [id |-> 1, name |-> <<"P">>, price_nzd |-> 3, image |-> <<1, "jpg">>],
       [id |-> 2, name |-> <<"Q">>, price_nzd |-> 4, image |-> <<2, "png">>] >>

NoProductResult ==
    [error |-> "none", product_id |-> 0, new_name |-> None, new_image |-> None,
     products_before |-> JsonFile(<<>>), images_before |-> {}]

\* CarrierService() on a data directory that holds the default carriers file
CarriersAtStart ==
    /\ carriers = DefaultCarriers
    /\ carriers_file = JsonFile(DefaultCarriers)
    /\ carrier_result = NoCarrierResult

\* TodoService() on a data directory without a todos file: it writes []
TodosAtStart ==
    /\ todos_file = JsonFile(<<>>)
    /\ todo_call = [p \in Procs |-> IdleTodo]
    /\ todo_log = NoTodoLog

ProductsAtStart ==
    /\ products_file = JsonFile(InitialProducts)
    /\ image_files = {InitialProducts[i].image : i \in 1..Len(InitialProducts)}
    /\ product_result = NoProductResult

ServicesAtStart ==
    /\ excel = NoExcel
    /\ CarriersAtStart
    /\ TodosAtStart
    /\ ProductsAtStart

Init ==
    /\ sheet \in InitSheets
    /\ checkbox = 2..Len(sheet)
    /\ today = 1
    /\ call = [p \in Procs |-> IdleCall]
    /\ received = 0
    /\ norm = NoNorm
    /\ ServicesAtStart

(***************************************************************************)
(* Effects of the Sheets API calls.                                        *)
(***************************************************************************)
BlankRow == [c \in 1..5 |-> <<>>]

\* the grid extended with blank rows up to row n
PadTo(sh, n) == sh \o [i \in 1..(n - Len(sh)) |-> BlankRow]

\* a batch that rewrites the whole row A..E of every entry
RECURSIVE ApplyUpdatesWholeRow(_, _)
ApplyUpdatesWholeRow(sh, updates) ==
    IF updates = <<>> THEN sh
    ELSE LET u == Head(updates)
             grid == PadTo(sh, u.row)
             written == [grid EXCEPT ![u.row] =
                            <<u.order_number, u.tracking_number, u.date,
                              u.tracking_link, BoolCell(FALSE)>>]
         IN  ApplyUpdatesWholeRow(written, Tail(updates))

\* values().batchUpdate: the B, C and D ranges of every entry, in list order
RECURSIVE ApplyUpdates(_, _)
ApplyUpdates(sh, updates) ==
    IF updates = <<>> THEN sh
    ELSE LET u == Head(updates)
             grid == PadTo(sh, u.row)
             written == [grid EXCEPT ![u.row][ColB] = u.tracking_number,
                                     ![u.row][ColC] = u.date,
                                     ![u.row][ColD] = u.tracking_link]
         IN  ApplyUpdates(written, Tail(updates))

\* an append that puts the new rows right below the header
AppendValuesOnTop(sh, rows) ==
    IF sh = <<>> THEN rows ELSE <<Head(sh)>> \o rows \o Tail(sh)

\* an append that leaves out the rows whose order number the sheet already holds
AppendValuesUnique(sh, rows) ==
    sh \o SelectSeq(rows, LAMBDA r : \A i \in 1..Len(sh) : sh[i][ColA] # r[ColA])

\* values().append with INSERT_ROWS: the rows land below the last row of the table
AppendValues(sh, rows) == sh \o rows

\* an append request that writes only the first of the new rows
AfterAppendFirstRowOnly(c, sh, ok) ==
    IF ok THEN AppendValues(sh, SubSeq(c.plan.rows_to_add, 1, 1)) ELSE sh

\* an append whose failure puts the sheet back as the call read it
AfterAppendRollback(c, sh, ok) ==
    IF ok THEN AppendValues(sh, c.plan.rows_to_add) ELSE c.before

\* the sheet after the append request of a call: the new rows when the request
\* succeeds; when it raises, the sheet as the earlier requests left it
AfterAppend(c, sh, ok) ==
    IF ok THEN AppendValues(sh, c.plan.rows_to_add) ELSE sh

\* a click on the checkbox of a row
Toggled(cell) == IF cell = BoolCell(TRUE) THEN BoolCell(FALSE) ELSE BoolCell(TRUE)

\* number of ticked checkboxes
Ticked(sh) == Cardinality({r \in 2..Len(sh) : sh[r][ColE] = BoolCell(TRUE)})

\* an order of the writes that appends before it updates
NextStepAppendFirst(plan, after) ==
    IF after = "read" /\ plan.rows_to_add # <<>> THEN "append"
    ELSE IF after = "read" /\ plan.rows_to_update # <<>> THEN "update"
    ELSE IF after = "append" /\ plan.rows_to_update # <<>> THEN "update"
    ELSE IF after = "append" THEN "format"
    ELSE IF after = "update" /\ plan.rows_to_add # <<>> THEN "format"
    ELSE "done"

\* where a call goes after its read, and after each write
NextStep(plan, after) ==
    IF after = "read" /\ plan.rows_to_update # <<>> THEN "update"
    ELSE IF after \in {"read", "update"} /\ plan.rows_to_add # <<>> THEN "append"
    ELSE IF after = "append" THEN "format"
    ELSE "done"

(***************************************************************************)
(* Actions.                                                                *)
(***************************************************************************)
\* the call's state after _get_existing_data and the computation that follows
\* it, up to the first write; ok = FALSE is the API error that
\* _get_existing_data catches
AfterRead(c, ok) ==
    LET df == IF ok THEN FrameOf(sheet) ELSE EmptyFrame
        raises == IF c.kind = "bulk" THEN RaisesKeyError(df, c.pairs)
                  ELSE AppendRaisesKeyError(df, c.pairs)
        plan == IF c.kind = "bulk" THEN Classify(df, c.pairs, today)
                ELSE AppendPlan(df, c.pairs, today)
    IN  [c EXCEPT !.read_failed = ~ok,
                  !.before = sheet,
                  !.existing_df = df,
                  !.day = today,
                  !.ops = Append(@, "read"),
                  !.plan = IF raises THEN NoPlan ELSE plan,
                  !.pc = IF raises THEN "failed" ELSE NextStep(plan, "read")]

\* POST /bulk_update: parsing, in-batch dedup, and bulk_update_orders up to
\* its first write
BulkUpdate(p, lines, ok) ==
    /\ call[p].pc = "idle"
    /\ received + Len(lines) <= MaxReceived
    /\ received' = received + Len(lines)
    /\ LET order_tracking_pairs == ParsedPairs(lines)
           final_pairs == UniquePairs(order_tracking_pairs)
           parsed == [IdleCall EXCEPT
                        !.kind = "bulk",
                        !.nonblank = NonBlankCount(lines),
                        !.parse_errors = ParseErrorCount(lines),
                        !.order_tracking_pairs = order_tracking_pairs,
                        !.pairs = final_pairs,
                        !.duplicates_removed =
                            Len(order_tracking_pairs) - Len(final_pairs)]
       IN  call' = [call EXCEPT ![p] =
              IF TextEmpty(lines)
              THEN [IdleCall EXCEPT !.pc = "rejected", !.kind = "bulk"]
              ELSE IF order_tracking_pairs = <<>>
              THEN [parsed EXCEPT !.pc = "rejected"]
              ELSE AfterRead(parsed, ok)]
    /\ UNCHANGED <<sheet, checkbox, today, norm>>
    /\ UNCHANGED serviceVars

\* POST /upload_excel: process_excel_file, and append_order_data up to its write
UploadExcel(p, file, ok) ==
    /\ call[p].pc = "idle"
    /\ received + Len(file) <= MaxReceived
    /\ received' = received + Len(file)
    /\ LET order_data == ProcessExcelFile(file)
           parsed == [IdleCall EXCEPT !.kind = "excel", !.pairs = order_data]
       IN  call' = [call EXCEPT ![p] =
              IF order_data = <<>> THEN [parsed EXCEPT !.pc = "rejected"]
              ELSE AfterRead(parsed, ok)]
    /\ UNCHANGED <<sheet, checkbox, today, norm>>
    /\ UNCHANGED serviceVars

\* values().batchUpdate of rows_to_update; ok = FALSE is an API error
BatchUpdate(p, ok) ==
    /\ call[p].pc = "update"
    /\ sheet' = IF ok THEN ApplyUpdates(sheet, call[p].plan.rows_to_update) ELSE sheet
    /\ call' = [call EXCEPT ![p].ops = Append(@, "update"),
                            ![p].pc = IF ok THEN NextStep(call[p].plan, "update")
                                      ELSE "failed"]
    /\ UNCHANGED <<checkbox, today, received, norm>>
    /\ UNCHANGED serviceVars

\* values().append of the new rows; ok = FALSE is an API error
AppendRows(p, ok) ==
    /\ call[p].pc = "append"
    /\ LET rows == call[p].plan.rows_to_add
           current_row_count == Len(call[p].existing_df.rows) + 1
       IN  /\ sheet' = AfterAppend(call[p], sheet, ok)
           /\ call' = [call EXCEPT
                 ![p].ops = Append(@, "append"),
                 ![p].start_row = current_row_count + 1,
                 ![p].end_row = current_row_count + Len(rows),
                 ![p].pc = IF ok THEN NextStep(call[p].plan, "append") ELSE "failed"]
    /\ UNCHANGED <<checkbox, today, received, norm>>
    /\ UNCHANGED serviceVars

\* _setup_checkbox_validation(start_row, end_row); its errors are swallowed
SetupCheckboxValidation(p, ok) ==
    /\ call[p].pc = "format"
    /\ checkbox' = IF ok THEN checkbox \cup (call[p].start_row..call[p].end_row)
                   ELSE checkbox
    /\ call' = [call EXCEPT ![p].ops = Append(@, "format"), ![p].pc = "done"]
    /\ UNCHANGED <<sheet, today, received, norm>>
    /\ UNCHANGED serviceVars

\* the handler flashes its message and redirects
Respond(p) ==
    /\ call[p].pc \in {"done", "failed", "rejected"}
    /\ call' = [call EXCEPT ![p] = IdleCall]
    /\ UNCHANGED <<sheet, checkbox, today, received, norm>>
    /\ UNCHANGED serviceVars

\* the user ticks or unticks the Completed checkbox of a data row
UserToggle(r) ==
    /\ \A p \in Procs : call[p].pc = "idle"
    /\ r \in 2..Len(sheet)
    /\ sheet[r][ColE] = BoolCell(TRUE) \/ Ticked(sheet) < MaxTicked
    /\ sheet' = [sheet EXCEPT ![r][ColE] = Toggled(@)]
    /\ UNCHANGED <<checkbox, today, call, received, norm>>
    /\ UNCHANGED serviceVars

\* midnight
Tick ==
    /\ \A p \in Procs : call[p].pc = "idle"
    /\ today < MaxDay
    /\ today' = today + 1
    /\ UNCHANGED <<sheet, checkbox, call, received, norm>>
    /\ UNCHANGED serviceVars

Next ==
    \/ \E p \in SeqProcs, lines \in Texts, ok \in BOOLEAN : BulkUpdate(p, lines, ok)
    \/ \E p \in SeqProcs, file \in Files, ok \in BOOLEAN : UploadExcel(p, file, ok)
    \/ \E p \in SeqProcs, ok \in BOOLEAN : BatchUpdate(p, ok)
    \/ \E p \in SeqProcs, ok \in BOOLEAN : AppendRows(p, ok)
    \/ \E p \in SeqProcs, ok \in BOOLEAN : SetupCheckboxValidation(p, ok)
    \/ \E p \in SeqProcs : Respond(p)
    \/ \E r \in 1..Len(sheet) : UserToggle(r)
    \/ Tick

Spec == Init /\ [][Next]_vars

(***************************************************************************)
(* The same requests against a ledger that has its header and whose reads  *)
(* never fail (writes still can).                                          *)
(***************************************************************************)
InitHeaded == Init /\ sheet # <<>>

NextReliable ==
    \/ \E p \in SeqProcs, lines \in Texts : BulkUpdate(p, lines, TRUE)
    \/ \E p \in SeqProcs, file \in Files : UploadExcel(p, file, TRUE)
    \/ \E p \in SeqProcs, ok \in BOOLEAN : BatchUpdate(p, ok)
    \/ \E p \in SeqProcs, ok \in BOOLEAN : AppendRows(p, ok)
    \/ \E p \in SeqProcs, ok \in BOOLEAN : SetupCheckboxValidation(p, ok)
    \/ \E p \in SeqProcs : Respond(p)
    \/ \E r \in 1..Len(sheet) : UserToggle(r)
    \/ Tick

SpecReliable == InitHeaded /\ [][NextReliable]_vars

(***************************************************************************)
(* Requests that overlap: the server serves two requests at a time, each   *)
(* in its own slot, and their reads and writes interleave.  The ledger has *)
(* its header, reads do not fail, and nobody else edits the sheet.         *)
(***************************************************************************)
NextOverlap ==
    \/ \E p \in Procs, lines \in Texts : BulkUpdate(p, lines, TRUE)
    \/ \E p \in Procs, file \in Files : UploadExcel(p, file, TRUE)
    \/ \E p \in Procs, ok \in BOOLEAN : BatchUpdate(p, ok)
    \/ \E p \in Procs, ok \in BOOLEAN : AppendRows(p, ok)
    \/ \E p \in Procs, ok \in BOOLEAN : SetupCheckboxValidation(p, ok)
    \/ \E p \in Procs : Respond(p)

SpecOverlap == InitHeaded /\ [][NextOverlap]_vars

(***************************************************************************)
(* Normalisation of one order token on its way from the pasted line to the *)
(* ledger: the handler's parsing, then the service's cleaning.             *)
(***************************************************************************)
\* all sequences over alphabet of length 1..n
RECURSIVE Words(_, _)
Words(alphabet, n) ==
    IF n = 0 THEN {}
    ELSE LET shorter == Words(alphabet, n - 1)
         IN  {<<a>> : a \in alphabet} \cup shorter
                \cup {Append(w, a) : w \in shorter, a \in alphabet}

Tokens == Words({"#", "1", "2"}, MaxTokLen)

\* the order number a line "token T" puts in the ledger; ok is FALSE when the
\* handler records the line as a parse error
Normalize(token) ==
    LET r == ParseLine(token \o <<" ", "T">>)
    IN  IF r.kind = "pair"
        THEN [ok |-> TRUE, value |-> CleanOrderNumber(r.pair[1])]
        ELSE [ok |-> FALSE, value |-> <<>>]

InitNorm ==
    /\ sheet = <<Header>>
    /\ checkbox = {}
    /\ today = 1
    /\ call = [p \in Procs |-> IdleCall]
    /\ received = 0
    /\ \E X \in Tokens : norm = [NoNorm EXCEPT !.X = X]
    /\ ServicesAtStart

NormalizeToken ==
    /\ ~norm.done
    /\ norm' = [norm EXCEPT !.plain = Normalize(norm.X),
                            !.hashed = Normalize(<<"#">> \o norm.X),
                            !.done = TRUE]
    /\ UNCHANGED <<sheet, checkbox, today, call, received>>
    /\ UNCHANGED serviceVars

SpecNorm == InitNorm /\ [][NormalizeToken]_vars

(***************************************************************************)
(* ExcelService.process_excel_file on one file.                            *)
(***************************************************************************)
\* the ledger side when only another service is exercised
LedgerAtStart ==
    /\ sheet = <<Header>>
    /\ checkbox = {}
    /\ today = 1
    /\ call = [p \in Procs |-> IdleCall]
    /\ received = 0
    /\ norm = NoNorm

\* rows (order cell, tracking cell) of a file: two tracking numbers for order
\* 1, order 1 behind '#' and behind '##', cells with white space around, an
\* empty tracking cell, an empty order cell, and an order cell that is '#' alone
ExcelRows ==
    { << <<"1">>, <<"A">> >>, << <<"1">>, <<"B">> >>, << <<"#", "1">>, <<"B">> >>,
      << <<"#", "#", "1">>, <<"A">> >>, << <<" ", "1", " ">>, <<" ", "C">> >>,
      << <<"1">>, <<>> >>, << <<>>, <<"A">> >>, << <<"#">>, <<"A">> >> }

ExcelFiles == UNION {[1..n -> ExcelRows] : n \in 1..MaxLines}

InitExcel ==
    /\ LedgerAtStart
    /\ \E file \in ExcelFiles : excel = [NoExcel EXCEPT !.file = file]
    /\ CarriersAtStart
    /\ TodosAtStart
    /\ ProductsAtStart

\* process_excel_file(file_path) on a file that passes validate_excel_file
ProcessFile ==
    /\ ~excel.done
    /\ excel' = [excel EXCEPT !.order_data = ProcessExcelFile(excel.file),
                              !.done = TRUE]
    /\ UNCHANGED ledgerVars
    /\ UNCHANGED <<carriers, carriers_file, carrier_result, todos_file, todo_call,
                   todo_log, products_file, image_files, product_result>>

SpecExcel == InitExcel /\ [][ProcessFile]_vars

(***************************************************************************)
(* CarrierService: the in-memory list and the carriers file.               *)
(***************************************************************************)
carrierVars == <<carriers, carriers_file, carrier_result>>

todoVars == <<todos_file, todo_call, todo_log>>

productVars == <<products_file, image_files, product_result>>

\* ids handed out by uuid4, the default carrier's included
MaxCarrierIds == 2

CarrierIds == 1..MaxCarrierIds

CarrierNames == {<<" ", "U">>}

ExampleTrackings == {<<"7", " ">>}

AlternativeTexts == {<<" ", "x">>}

\* Optional[bool]: <<>> is None
OptionalBool == {<<>>, <<TRUE>>, <<FALSE>>}

\* arguments of update_carrier (carrier_name, etsy_approved, example_tracking,
\* alternative_text): nothing to change, or one field to change
UpdateArguments ==
    {<<None, <<>>, None, None>>}
    \cup {<<n, <<>>, None, None>> : n \in CarrierNames}
    \cup {<<None, b, None, None>> : b \in OptionalBool}
    \cup {<<None, <<>>, e, None>> : e \in ExampleTrackings}
    \cup {<<None, <<>>, None, a>> : a \in AlternativeTexts}

\* how _save_carriers ends: the dump completes, open() fails and the file is
\* left alone, or the dump fails after open(..., 'w') has truncated the file
SaveOutcomes == {"saved", "open_failed", "write_failed"}

SaveCarriers(file, data, outcome) ==
    CASE outcome = "saved" -> JsonFile(data)
      [] outcome = "open_failed" -> file
      [] outcome = "write_failed" -> TruncatedFile

\* index of the first carrier with this id, 0 when there is none
CarrierIdx(list, carrier_id) ==
    IF \E i \in 1..Len(list) : list[i].id = carrier_id
    THEN CHOOSE i \in 1..Len(list) :
            /\ list[i].id = carrier_id
            /\ \A j \in 1..(i - 1) : list[j].id # carrier_id
    ELSE 0

\* the list without its element i (list.pop(i))
Pop(list, i) == SubSeq(list, 1, i - 1) \o SubSeq(list, i + 1, Len(list))

AddCarrier(carrier_name, etsy_approved, example_tracking, alternative_text, outcome) ==
    /\ carrier_result.issued < MaxCarrierIds
    /\ LET carrier == [id |-> carrier_result.issued + 1,
                       carrier_name |-> Strip(carrier_name),
                       etsy_approved |-> etsy_approved,
                       example_tracking |-> Strip(example_tracking),
                       alternative_text |-> IF alternative_text = None THEN None
                                            ELSE Strip(alternative_text),
                       is_alternative |-> FALSE]
       IN  /\ carriers' = Append(carriers, carrier)
           /\ carriers_file' = SaveCarriers(carriers_file, carriers', outcome)
           /\ carrier_result' = [op |-> "add_carrier", raised |-> outcome # "saved",
                                 issued |-> carrier_result.issued + 1,
                                 before |-> carriers]
    /\ UNCHANGED ledgerVars
    /\ UNCHANGED <<excel, todoVars, productVars>>

UpdateCarrier(carrier_id, carrier_name, etsy_approved, example_tracking, alternative_text, outcome) ==
    /\ LET i == CarrierIdx(carriers, carrier_id)
       IN  IF i = 0
           THEN /\ outcome = "saved"
                /\ carrier_result' = [carrier_result EXCEPT !.op = "update_carrier",
                                                            !.raised = FALSE,
                                                            !.before = carriers]
                /\ UNCHANGED <<carriers, carriers_file>>
           ELSE /\ carriers' = [carriers EXCEPT ![i] =
                      [@ EXCEPT
                         !.carrier_name = IF carrier_name = None THEN @
                                          ELSE Strip(carrier_name),
                         !.etsy_approved = IF etsy_approved = <<>> THEN @
                                           ELSE etsy_approved[1],
                         !.example_tracking = IF example_tracking = None THEN @
                                              ELSE Strip(example_tracking),
                         !.alternative_text = IF alternative_text = None THEN @
                                              ELSE Strip(alternative_text)]]
                /\ carriers_file' = SaveCarriers(carriers_file, carriers', outcome)
                /\ carrier_result' = [carrier_result EXCEPT !.op = "update_carrier",
                                                            !.raised = (outcome # "saved"),
                                                            !.before = carriers]
    /\ UNCHANGED ledgerVars
    /\ UNCHANGED <<excel, todoVars, productVars>>

DeleteCarrier(carrier_id, outcome) ==
    /\ LET i == CarrierIdx(carriers, carrier_id)
       IN  IF i = 0
           THEN /\ outcome = "saved"
                /\ carrier_result' = [carrier_result EXCEPT !.op = "delete_carrier",
                                                            !.raised = FALSE,
                                                            !.before = carriers]
                /\ UNCHANGED <<carriers, carriers_file>>
           ELSE /\ carriers' = Pop(carriers, i)
                /\ carriers_file' = SaveCarriers(carriers_file, carriers', outcome)
                /\ carrier_result' = [carrier_result EXCEPT !.op = "delete_carrier",
                                                            !.raised = (outcome # "saved"),
                                                            !.before = carriers]
    /\ UNCHANGED ledgerVars
    /\ UNCHANGED <<excel, todoVars, productVars>>

AddAlternativeCarrier(alternative_text, outcome) ==
    /\ carrier_result.issued < MaxCarrierIds
    /\ LET carrier == [id |-> carrier_result.issued + 1,
                       carrier_name |-> <<"Alternative Carrier">>,
                       etsy_approved |-> FALSE,
                       example_tracking |-> <<"Custom tracking method">>,
                       alternative_text |-> Strip(alternative_text),
                       is_alternative |-> TRUE]
       IN  /\ carriers' = Append(carriers, carrier)
           /\ carriers_file' = SaveCarriers(carriers_file, carriers', outcome)
           /\ carrier_result' = [op |-> "add_alternative_carrier",
                                 raised |-> outcome # "saved",
                                 issued |-> carrier_result.issued + 1,
                                 before |-> carriers]
    /\ UNCHANGED ledgerVars
    /\ UNCHANGED <<excel, todoVars, productVars>>

\* app.py at start-up, when only the JSON-backed services are exercised
InitServices ==
    /\ LedgerAtStart
    /\ ServicesAtStart

NextCarriers ==
    \/ \E carrier_name \in CarrierNames, etsy_approved \in BOOLEAN,
          example_tracking \in ExampleTrackings,
          alternative_text \in AlternativeTexts \cup {None}, outcome \in SaveOutcomes :
          AddCarrier(carrier_name, etsy_approved, example_tracking, alternative_text,
                     outcome)
    \/ \E carrier_id \in CarrierIds, args \in UpdateArguments, outcome \in SaveOutcomes :
          UpdateCarrier(carrier_id, args[1], args[2], args[3], args[4], outcome)
    \/ \E carrier_id \in CarrierIds, outcome \in SaveOutcomes :
          DeleteCarrier(carrier_id, outcome)
    \/ \E alternative_text \in AlternativeTexts, outcome \in SaveOutcomes :
          AddAlternativeCarrier(alternative_text, outcome)

SpecCarriers == InitServices /\ [][NextCarriers]_vars

(***************************************************************************)
(* TodoService: every mutation loads the file, changes its own copy and    *)
(* writes the copy back; Flask serves requests on separate threads.        *)
(***************************************************************************)
\* calls begun in one run
MaxTodoCalls == 3

TodoIds == 1..MaxTodoCalls

\* the title create_todo is given, and the title update_todo is given
FirstTitle == <<"first">>

NewTitle == <<"new">>

\* _load_todos: a file that does not decode counts as an empty list
LoadTodos(file) == IF file.valid THEN file.data ELSE <<>>

\* create_todo up to its call of _save_todos
CreateTodo(p, title) ==
    /\ todo_call[p].pc = "idle"
    /\ todo_log.calls < MaxTodoCalls
    /\ LET todo == [id |-> todo_log.issued + 1, title |-> title]
           todos == LoadTodos(todos_file)
       IN  todo_call' = [todo_call EXCEPT ![p] =
              [pc |-> "save", op |-> "create_todo", id |-> todo.id, title |-> title,
               todos |-> Append(todos, todo)]]
    /\ todo_log' = [todo_log EXCEPT !.issued = @ + 1, !.calls = @ + 1]
    /\ UNCHANGED todos_file
    /\ UNCHANGED ledgerVars
    /\ UNCHANGED <<excel, carrierVars, productVars>>

\* update_todo up to its call of _save_todos; an unknown id returns False
UpdateTodo(p, todo_id, title) ==
    /\ todo_call[p].pc = "idle"
    /\ todo_log.calls < MaxTodoCalls
    /\ LET todos == LoadTodos(todos_file)
           found == \E i \in 1..Len(todos) : todos[i].id = todo_id
           changed == [i \in 1..Len(todos) |->
                          IF todos[i].id = todo_id /\ title # None
                          THEN [todos[i] EXCEPT !.title = title]
                          ELSE todos[i]]
       IN  todo_call' = [todo_call EXCEPT ![p] =
              IF found
              THEN [pc |-> "save", op |-> "update_todo", id |-> todo_id, title |-> title,
                    todos |-> changed]
              ELSE IdleTodo]
    /\ todo_log' = [todo_log EXCEPT !.calls = @ + 1]
    /\ UNCHANGED todos_file
    /\ UNCHANGED ledgerVars
    /\ UNCHANGED <<excel, carrierVars, productVars>>

\* delete_todo up to its call of _save_todos; an unknown id returns False
DeleteTodo(p, todo_id) ==
    /\ todo_call[p].pc = "idle"
    /\ todo_log.calls < MaxTodoCalls
    /\ LET todos == LoadTodos(todos_file)
           kept == SelectSeq(todos, LAMBDA todo : todo.id # todo_id)
       IN  todo_call' = [todo_call EXCEPT ![p] =
              IF Len(kept) < Len(todos)
              THEN [pc |-> "save", op |-> "delete_todo", id |-> todo_id, title |-> None,
                    todos |-> kept]
              ELSE IdleTodo]
    /\ todo_log' = [todo_log EXCEPT !.calls = @ + 1]
    /\ UNCHANGED todos_file
    /\ UNCHANGED ledgerVars
    /\ UNCHANGED <<excel, carrierVars, productVars>>

\* _save_todos, open(self.todos_file, 'w'): the file is truncated
OpenTodosFile(p) ==
    /\ todo_call[p].pc = "save"
    /\ todos_file' = TruncatedFile
    /\ todo_call' = [todo_call EXCEPT ![p].pc = "dump"]
    /\ UNCHANGED todo_log
    /\ UNCHANGED ledgerVars
    /\ UNCHANGED <<excel, carrierVars, productVars>>

\* _save_todos, json.dump and close: the file holds the call's copy, and the
\* call returns
DumpTodos(p) ==
    /\ todo_call[p].pc = "dump"
    /\ todos_file' = JsonFile(todo_call[p].todos)
    /\ todo_call' = [todo_call EXCEPT ![p] = IdleTodo]
    /\ todo_log' =
          CASE todo_call[p].op = "create_todo" ->
                  [todo_log EXCEPT !.created = @ \cup {todo_call[p].id}]
            [] todo_call[p].op = "update_todo" ->
                  [todo_log EXCEPT !.updated =
                      IF todo_call[p].title = None THEN @ ELSE @ \cup {todo_call[p].id}]
            [] todo_call[p].op = "delete_todo" ->
                  [todo_log EXCEPT !.deleted = @ \cup {todo_call[p].id}]
    /\ UNCHANGED ledgerVars
    /\ UNCHANGED <<excel, carrierVars, productVars>>

NextTodos ==
    \E p \in Procs :
        \/ CreateTodo(p, FirstTitle)
        \/ \E todo_id \in TodoIds, title \in {NewTitle, None} : UpdateTodo(p, todo_id, title)
        \/ \E todo_id \in TodoIds : DeleteTodo(p, todo_id)
        \/ OpenTodosFile(p)
        \/ DumpTodos(p)

SpecTodos == InitServices /\ [][NextTodos]_vars

(***************************************************************************)
(* ProductService.update_product: the products file and the image folder.  *)
(***************************************************************************)
ProductIds == {1, 2, 3}

\* new_name: None, blank, or a name with white space around
NewNames == {None, <<" ">>, <<"N", " ">>}

\* Optional[float]: <<>> is None
NewPrices == {<<>>, <<0>>, <<5>>}

\* the uploaded file's name as (stem, extension); a name without '.' has no
\* extension
NewImages == {None, <<"a", "PNG">>, <<"a">>}

\* how the file writes of one call end: all succeed, new_image_file.save
\* raises, open() of the products file fails, or json.dump fails after the
\* file was truncated
UpdateOutcomes == {"saved", "image_failed", "open_failed", "write_failed"}

allowed_extensions == {"png", "jpg", "jpeg", "gif"}

\* str.lower on the extensions that occur
Lower(ext) == IF ext = "PNG" THEN "png" ELSE ext

\* _allowed_file
AllowedFile(filename) == Len(filename) = 2 /\ Lower(filename[2]) \in allowed_extensions

\* _load_products: a missing or undecodable file counts as an empty list
LoadProducts(file) == IF file.valid THEN file.data ELSE <<>>

\* update_product, lines 203-215: load the list and find the product
FindProduct(file, images, args) ==
    LET products == LoadProducts(file)
        found == {i \in 1..Len(products) : products[i].id = args.product_id}
    IN  IF found = {}
        THEN [products |-> products, index |-> 0, image_files |-> images,
              products_file |-> file, error |-> "not_found"]
        ELSE [products |-> products,
              index |-> CHOOSE i \in found : \A j \in found : i <= j,
              image_files |-> images, products_file |-> file, error |-> "none"]

\* lines 217-219: the name of the loaded copy
ApplyName(st, args) ==
    IF st.error # "none" \/ args.new_name = None \/ Strip(args.new_name) = <<>>
    THEN st
    ELSE [st EXCEPT !.products[st.index].name = Strip(args.new_name)]

\* lines 237-252: the old image file is removed, the new one saved as
\* <product_id>.<extension>
ApplyImage(st, args) ==
    IF st.error # "none" \/ args.new_image = None \/ ~AllowedFile(args.new_image)
    THEN st
    ELSE LET old_image == st.products[st.index].image
             unique_filename == <<args.product_id, Lower(args.new_image[2])>>
             removed == st.image_files \ {old_image}
         IN  IF args.outcome = "image_failed"
             THEN [st EXCEPT !.image_files = removed, !.error = "image"]
             ELSE [st EXCEPT !.image_files = removed \cup {unique_filename},
                             !.products[st.index].image = unique_filename]

\* a price check that runs only after the image was replaced
ApplyPriceImageFirst(st, args) ==
    LET replaced == ApplyImage(st, args)
    IN  IF replaced.error # "none" \/ args.new_price = <<>>
        THEN replaced
        ELSE IF args.new_price[1] <= 0
             THEN [replaced EXCEPT !.error = "price"]
             ELSE [replaced EXCEPT !.products[replaced.index].price_nzd = args.new_price[1]]

\* lines 221-225: the price check and the price of the loaded copy
ApplyPrice(st, args) ==
    IF st.error # "none" \/ args.new_price = <<>>
    THEN st
    ELSE IF args.new_price[1] <= 0
         THEN [st EXCEPT !.error = "price"]
         ELSE [st EXCEPT !.products[st.index].price_nzd = args.new_price[1]]

\* lines 254-256 and _save_products
SaveProducts(st, args) ==
    IF st.error # "none" THEN st
    ELSE CASE args.outcome = "open_failed" -> [st EXCEPT !.error = "save"]
           [] args.outcome = "write_failed" ->
                 [st EXCEPT !.products_file = TruncatedFile, !.error = "save"]
           [] OTHER -> [st EXCEPT !.products_file = JsonFile(st.products)]

\* update_product as a whole; the listing link and the sourcing fields are
\* assigned on the loaded copy like the name and are left out
UpdateProductOutcome(file, images, args) ==
    SaveProducts(ApplyImage(ApplyPrice(ApplyName(FindProduct(file, images, args), args),
                                       args), args), args)

UpdateProduct(product_id, new_name, new_price, new_image, outcome) ==
    /\ LET args == [product_id |-> product_id, new_name |-> new_name,
                    new_price |-> new_price, new_image |-> new_image,
                    outcome |-> outcome]
           end == UpdateProductOutcome(products_file, image_files, args)
       IN  /\ products_file' = end.products_file
           /\ image_files' = end.image_files
           /\ product_result' = [error |-> end.error, product_id |-> product_id,
                                 new_name |-> new_name, new_image |-> new_image,
                                 products_before |-> products_file,
                                 images_before |-> image_files]
    /\ UNCHANGED ledgerVars
    /\ UNCHANGED <<excel, carrierVars, todoVars>>

NextProducts ==
    \E product_id \in ProductIds, new_name \in NewNames, new_price \in NewPrices,
       new_image \in NewImages, outcome \in UpdateOutcomes :
       UpdateProduct(product_id, new_name, new_price, new_image, outcome)

SpecProducts == InitServices /\ [][NextProducts]_vars

(***************************************************************************)
(* Vocabulary of the properties.                                           *)
(***************************************************************************)
AtRest == \A p \in Procs : call[p].pc = "idle"

\* positions of the ledger rows of a sheet (every row but the header)
LedgerRows(sh) == {i \in 1..Len(sh) : sh[i] # Header}

\* the calls of bulk_update_orders that have read the ledger
BulkCalls == {p \in Procs : call[p].kind = "bulk" /\ call[p].ops # <<>>}

\* the call has issued this external operation
Issued(c, op) == \E i \in 1..Len(c.ops) : c.ops[i] = op

\* positions of the pairs of a call that the service does not skip
Reconciled(c) == {k \in 1..Len(c.pairs) : ~PairSkipped(c.pairs[k])}

\* update entries and new rows a plan holds for order number O
ActionsFor(plan, O) ==
    Cardinality({i \in 1..Len(plan.rows_to_update) :
                    plan.rows_to_update[i].order_number = O})
      + Cardinality({i \in 1..Len(plan.rows_to_add) : plan.rows_to_add[i][ColA] = O})

(***************************************************************************)
(* C1: at rest, after any sequence of non-overlapping bulk_update          *)
(* requests, no two ledger rows hold the same normalized order number.     *)
(* The code breaks it: the handler strips one '#' and dedups, the service  *)
(* strips a second '#', so '##1' and '1' of one request become two rows    *)
(* for order 1.                                                            *)
(***************************************************************************)
C1_OrderNumbersUnique ==
    AtRest =>
        \A i, j \in LedgerRows(sheet) :
            i # j => CleanOrderNumber(sheet[i][ColA]) # CleanOrderNumber(sheet[j][ColA])

(***************************************************************************)
(* C2: a call whose ledger read failed ends in an error and issues no      *)
(* write (no batch update, no append, no checkbox formatting).  The code   *)
(* breaks it: _get_existing_data swallows the error and returns an empty   *)
(* table, so every pair is appended.                                       *)
(***************************************************************************)
C2_FailedReadWritesNothing ==
    \A p \in Procs :
        call[p].read_failed =>
            /\ call[p].pc # "done"
            /\ ~Issued(call[p], "update")
            /\ ~Issued(call[p], "append")
            /\ ~Issued(call[p], "format")

(***************************************************************************)
(* C3: a pair (O, T) reconciled against a ledger that already holds the    *)
(* row (O, T) of an earlier run is classified as an update: one update     *)
(* entry, no new row.  The code breaks it for an order number that keeps a *)
(* '#' after cleaning: the stored cell is compared with every '#' removed, *)
(* the input with one leading '#' removed.                                 *)
(***************************************************************************)
C3_RerunIsUpdate ==
    \A p \in BulkCalls : \A k \in Reconciled(call[p]) :
        LET c == call[p]
            O == CleanOrderNumber(c.pairs[k][1])
            T == c.pairs[k][2]
        IN  (\E r \in LedgerRows(c.before) :
                c.before[r][ColA] = O /\ c.before[r][ColB] = T)
            => (c.pc # "failed" =>
                  /\ \A i \in 1..Len(c.plan.rows_to_add) : c.plan.rows_to_add[i][ColA] # O
                  /\ \E i \in 1..Len(c.plan.rows_to_update) :
                        c.plan.rows_to_update[i].order_number = O)

\* sum of the three counts a call returns
Counted(c) == c.plan.added + c.plan.updated + c.plan.skipped

\* the bulk_update requests that have returned their counts
Returned == {p \in BulkCalls : call[p].pc = "done"}

Matched(c, i) ==
    /\ c.kind = "bulk"
    /\ \E k \in Reconciled(c) :
          CleanOrderNumber(c.pairs[k][1]) = CleanExisting(c.before[i][ColA])

UpdateWritten(c) ==
    /\ Issued(c, "update")
    /\ c.pc # "failed" \/ c.ops[Len(c.ops)] # "update"

(***************************************************************************)
(* C6: after the update batch of a call is written, every row it targets   *)
(* still has the order-number cell (A) and the completed cell (E) it had   *)
(* when the call read the ledger, ticked or not.                           *)
(***************************************************************************)
C6_UpdateKeepsOrderAndCompleted ==
    \A p \in BulkCalls :
        UpdateWritten(call[p]) =>
            \A i \in 1..Len(call[p].plan.rows_to_update) :
                LET r == call[p].plan.rows_to_update[i].row
                IN  /\ r <= Len(call[p].before)
                    /\ sheet[r][ColA] = call[p].before[r][ColA]
                    /\ sheet[r][ColE] = call[p].before[r][ColE]

C6_Witness ==
    \E p \in Returned :
        /\ UpdateWritten(call[p])
        /\ \E i \in 1..Len(call[p].plan.rows_to_update) :
              LET r == call[p].plan.rows_to_update[i].row
              IN  /\ call[p].before[r][ColE] = BoolCell(TRUE)
                  /\ sheet[r][ColE] = BoolCell(TRUE)
                  /\ sheet[r][ColB] # call[p].before[r][ColB]

\* position in the table the call read of the first row whose order number,
\* cleaned as the service cleans stored cells, is O; 0 when there is none
FirstMatch(c, O) ==
    LET hit(i) == CleanExisting(c.existing_df.rows[i][ColA]) = O
        n == Len(c.existing_df.rows)
    IN  IF \E i \in 1..n : hit(i)
        THEN CHOOSE i \in 1..n : hit(i) /\ \A j \in 1..(i - 1) : ~hit(j)
        ELSE 0

\* the update entry is the last one of its plan for its row
LastForRow(plan, i) ==
    \A j \in (i + 1)..Len(plan.rows_to_update) :
        plan.rows_to_update[j].row # plan.rows_to_update[i].row

C8_BootstrapInsert ==
    \A p \in BulkCalls :
        LET c == call[p]
        IN  c.before = <<>> \/ c.before = <<Header>> =>
              /\ c.existing_df.rows = <<>>
              /\ Len(c.plan.rows_to_add) = Len(c.pairs)
              /\ \A k \in 1..Len(c.pairs) :
                    c.plan.rows_to_add[k] =
                        <<CleanOrderNumber(c.pairs[k][1]), c.pairs[k][2],
                          strftime(c.day), LinkPrefix \o c.pairs[k][2], <<"FALSE">>>>
              /\ c.plan.added = Len(c.pairs)
              /\ c.plan.updated = 0
              /\ c.plan.skipped = 0
              /\ c.pc = "done" => sheet = c.before \o c.plan.rows_to_add

C8_Witness ==
    \E p \in Returned :
        /\ ~call[p].read_failed
        /\ call[p].before = <<Header>>
        /\ call[p].plan.added = 1
        /\ Len(sheet) = 2
        /\ sheet[2][ColA] = <<"1">>
        /\ sheet[2][ColE] = <<"FALSE">>

(***************************************************************************)
(* C9: when the lines of one request carry the same order number more than *)
(* once after normalization, the call plans exactly one insert or update   *)
(* for it, with the tracking number of its last line.  The code breaks it: *)
(* the dedup runs on the handler's order numbers, before the service       *)
(* strips a second '#'.                                                    *)
(***************************************************************************)
C9_OneActionPerOrder ==
    \A p \in BulkCalls :
        LET c == call[p]
            lines == c.order_tracking_pairs
            O(i) == CleanOrderNumber(lines[i][1])
            same(i) == {j \in 1..Len(lines) : O(j) = O(i)}
            last(i) == CHOOSE j \in same(i) : \A m \in same(i) : m <= j
        IN  c.pc # "failed" =>
              \A i \in 1..Len(lines) :
                  Cardinality(same(i)) > 1 =>
                      /\ ActionsFor(c.plan, O(i)) = 1
                      /\ \A u \in 1..Len(c.plan.rows_to_update) :
                            c.plan.rows_to_update[u].order_number = O(i) =>
                                c.plan.rows_to_update[u].tracking_number = lines[last(i)][2]
                      /\ \A a \in 1..Len(c.plan.rows_to_add) :
                            c.plan.rows_to_add[a][ColA] = O(i) =>
                                c.plan.rows_to_add[a][ColB] = lines[last(i)][2]

(***************************************************************************)
(* C10 as stated: for every order token X, the tokens '#X' and 'X' both    *)
(* normalize to X.  It fails for a token X that itself begins with '#'.    *)
(***************************************************************************)
C10_HashStripped ==
    norm.done =>
        /\ norm.plain = [ok |-> TRUE, value |-> norm.X]
        /\ norm.hashed = [ok |-> TRUE, value |-> norm.X]

(***************************************************************************)
(* C10 amended: for every order token X that does not itself begin with    *)
(* '#', the tokens '#X' and 'X' both normalize to X: the one leading '#'   *)
(* is removed and no other character changes.                              *)
(***************************************************************************)
C10_HashStrippedOnce ==
    norm.done /\ ~StartsWithHash(norm.X) =>
        /\ norm.plain = [ok |-> TRUE, value |-> norm.X]
        /\ norm.hashed = [ok |-> TRUE, value |-> norm.X]

C10_Witness ==
    /\ norm.done
    /\ norm.X = <<"1", "#", "2">>
    /\ norm.hashed.value = <<"1", "#", "2">>

\* the call got past its read: it has a plan
Planned(c) == c.ops # <<>> /\ (c.pc # "failed" \/ Len(c.ops) > 1)

(***************************************************************************)
(* C11: stored order numbers are normalized like input order numbers       *)
(* (trim, one leading '#' removed) before matching: a pair is planned as   *)
(* an update of row r only if the two normalized order numbers are equal,  *)
(* and whenever some ledger row has the pair's normalized order number the *)
(* pair is planned as an update of such a row.  The code breaks it: it     *)
(* removes every '#' of the stored cell, so the stored '1#' is compared as *)
(* '1'.                                                                    *)
(***************************************************************************)
C11_SameNormalization ==
    \A p \in BulkCalls : \A k \in Reconciled(call[p]) :
        LET c == call[p]
            O == CleanOrderNumber(c.pairs[k][1])
            same == {r \in LedgerRows(c.before) :
                        CleanOrderNumber(c.before[r][ColA]) = O}
            targets == {c.plan.rows_to_update[i].row :
                            i \in {j \in 1..Len(c.plan.rows_to_update) :
                                      c.plan.rows_to_update[j].order_number = O}}
        IN  Planned(c) =>
              /\ targets \subseteq same
              /\ same # {} => targets # {}

\* the pair has an empty field once trimmed and '#'-stripped
EmptyAfterCleaning(pair) ==
    CleanOrderNumber(pair[1]) = <<>> \/ Strip(pair[2]) = <<>>

(***************************************************************************)
(* C12: a pair with a field that is empty after trimming and '#'-stripping *)
(* is dropped by bulk_update_orders: it is counted in skipped and yields   *)
(* no new row and no update.  The code breaks it: it tests the fields      *)
(* before it cleans them, so the order number '#' passes the test and      *)
(* becomes a row with an empty order number.                               *)
(***************************************************************************)
C12_EmptyFieldSkipped ==
    \A p \in BulkCalls :
        LET c == call[p]
            dropped == {k \in 1..Len(c.pairs) : EmptyAfterCleaning(c.pairs[k])}
        IN  Planned(c) =>
              /\ c.plan.skipped = Cardinality(dropped)
              /\ Len(c.plan.rows_to_add) + Len(c.plan.rows_to_update)
                    = Len(c.pairs) - Cardinality(dropped)

\* the bulk_update requests being served, rejected ones included
BulkRequests == {p \in Procs : call[p].kind = "bulk"}

(***************************************************************************)
(* C13: the non-blank lines that do not parse are recorded as parse errors *)
(* and nothing else happens to them: every other non-blank line is kept as *)
(* a pair, wherever the bad lines stand in the text; the request goes on   *)
(* to reconcile the kept pairs; the three counts add up to the pairs left  *)
(* after the in-batch dedup, and every new row and every update entry      *)
(* carries the order number and the tracking number of a kept pair.  A     *)
(* request whose non-blank lines are all bad issues no read and no write.  *)
(***************************************************************************)
C13_ParseErrorsSetAside ==
    \A p \in BulkRequests :
        LET c == call[p]
            fromPair(O, T) ==
                \E k \in 1..Len(c.order_tracking_pairs) :
                    /\ CleanOrderNumber(c.order_tracking_pairs[k][1]) = O
                    /\ c.order_tracking_pairs[k][2] = T
        IN  /\ Len(c.order_tracking_pairs) = c.nonblank - c.parse_errors
            /\ c.order_tracking_pairs = <<>> <=> c.pc = "rejected"
            /\ c.pc = "rejected" => c.ops = <<>>
            /\ c.pc # "rejected" => c.ops # <<>> /\ c.ops[1] = "read"
            /\ Planned(c) =>
                  /\ Counted(c) = Len(c.pairs)
                  /\ Len(c.pairs) = Len(c.order_tracking_pairs) - c.duplicates_removed
                  /\ \A i \in 1..Len(c.plan.rows_to_add) :
                        fromPair(c.plan.rows_to_add[i][ColA], c.plan.rows_to_add[i][ColB])
                  /\ \A i \in 1..Len(c.plan.rows_to_update) :
                        fromPair(c.plan.rows_to_update[i].order_number,
                                 c.plan.rows_to_update[i].tracking_number)

C13_Witness ==
    \E p \in Returned :
        /\ call[p].parse_errors = 1
        /\ call[p].nonblank = 2
        /\ call[p].plan.added = 1
        /\ Len(sheet) = Len(call[p].before) + 1

\* the sequences of external operations a call may have issued
OpsInOrder ==
    { <<"read">>, <<"read", "update">>, <<"read", "append">>,
      <<"read", "append", "format">>, <<"read", "update", "append">>,
      <<"read", "update", "append", "format">> }

(***************************************************************************)
(* C14: the external operations of one bulk_update_orders call are, in     *)
(* this order, one ledger read, the update batch if there are updates, the *)
(* append if there are new rows, and the checkbox formatting after the     *)
(* append: nothing is written before the read and the append never comes   *)
(* before the update batch.  A call that returns has issued the batch for  *)
(* its updates and the append and the formatting for its new rows.         *)
(***************************************************************************)
C14_ReadUpdateAppendFormat ==
    \A p \in BulkCalls :
        LET c == call[p]
        IN  /\ c.ops \in OpsInOrder
            /\ Issued(c, "update") => c.plan.rows_to_update # <<>>
            /\ Issued(c, "append") => c.plan.rows_to_add # <<>>
            /\ c.pc = "done" =>
                  /\ c.plan.rows_to_update # <<>> => Issued(c, "update")
                  /\ c.plan.rows_to_add # <<>> =>
                        Issued(c, "append") /\ Issued(c, "format")

C14_Witness ==
    \E p \in Returned : call[p].ops = <<"read", "update", "append", "format">>

(***************************************************************************)
(* C15: when the update batch of a call has been written and its append    *)
(* fails, the call ends in an error, the updated cells hold their new      *)
(* values (nothing is rolled back) and the sheet has no new row.           *)
(***************************************************************************)
C15_PartialCommit ==
    \A p \in BulkCalls :
        LET c == call[p]
        IN  c.ops = <<"read", "update", "append">> =>
              /\ c.pc \in {"failed", "format"}
              /\ c.pc = "failed" <=> Len(sheet) = Len(c.before)
              /\ \A i \in 1..Len(c.plan.rows_to_update) :
                    LET u == c.plan.rows_to_update[i]
                    IN  LastForRow(c.plan, i) =>
                          /\ sheet[u.row][ColB] = u.tracking_number
                          /\ sheet[u.row][ColC] = u.date
                          /\ sheet[u.row][ColD] = u.tracking_link

C15_Witness ==
    \E p \in BulkCalls :
        /\ call[p].ops = <<"read", "update", "append">>
        /\ call[p].pc = "failed"
        /\ Len(sheet) = Len(call[p].before)
        /\ \E i \in 1..Len(call[p].plan.rows_to_update) :
              LET u == call[p].plan.rows_to_update[i]
              IN  /\ call[p].before[u.row][ColB] # u.tracking_number
                  /\ sheet[u.row][ColB] = u.tracking_number

(***************************************************************************)
(* C16: after a call has appended k >= 1 rows to a ledger read with n data *)
(* rows, it applies the checkbox rule to the sheet rows n+2 .. n+1+k, and  *)
(* these are the rows it appended; a call that appends nothing applies no  *)
(* rule.  The code breaks it on a sheet without a header row: the rows     *)
(* land from row 1 while the range starts at row 2.                        *)
(***************************************************************************)
C16_CheckboxOnAppendedRows ==
    \A p \in BulkCalls :
        LET c == call[p]
            n == Len(c.existing_df.rows)
            k == Len(c.plan.rows_to_add)
        IN  ~c.read_failed =>
              /\ Issued(c, "format") =>
                    /\ Issued(c, "append")
                    /\ k >= 1
                    /\ c.start_row = n + 2
                    /\ c.end_row = n + 1 + k
                    /\ c.end_row <= Len(sheet)
                    /\ \A i \in 1..k : sheet[n + 1 + i] = c.plan.rows_to_add[i]
              /\ c.pc = "done" /\ ~Issued(c, "append") => ~Issued(c, "format")

\* number of ledger rows of the sheet that hold order number O
RowsHolding(sh, O) == Cardinality({r \in LedgerRows(sh) : sh[r][ColA] = O})

(***************************************************************************)
(* C17: nothing keeps two overlapping bulk_update_orders calls from        *)
(* appending the same order number: when two calls have read the same      *)
(* ledger, each has planned a new row for order number O and both have     *)
(* returned, the sheet holds at least two rows with order number O.  The   *)
(* witness is the race itself: both calls read the header-only ledger      *)
(* before either wrote, and the sheet ends with two rows for order 1.      *)
(***************************************************************************)
C17_RaceAppendsTwice ==
    \A p, q \in BulkCalls :
        LET c == call[p]
            d == call[q]
        IN  p # q /\ c.pc = "done" /\ d.pc = "done" /\ c.before = d.before =>
              \A i \in 1..Len(c.plan.rows_to_add), j \in 1..Len(d.plan.rows_to_add) :
                  c.plan.rows_to_add[i][ColA] = d.plan.rows_to_add[j][ColA] =>
                      RowsHolding(sheet, c.plan.rows_to_add[i][ColA]) >= 2

C17_Witness ==
    /\ \A p \in Procs :
          /\ call[p].kind = "bulk"
          /\ call[p].pc = "done"
          /\ call[p].before = <<Header>>
          /\ call[p].plan.added = 1
          /\ call[p].plan.rows_to_add[1][ColA] = <<"1">>
    /\ RowsHolding(sheet, <<"1">>) = 2

ExcelCalls == {p \in Procs : call[p].kind = "excel" /\ call[p].ops # <<>>}

(***************************************************************************)
(* C19: a pair of an uploaded file whose order number the ledger already   *)
(* holds is reconciled as an update: once the request has returned, that   *)
(* row holds the pair's tracking number, today's date and the link of the  *)
(* new tracking number.  The code breaks it: append_order_data only        *)
(* filters such a pair out and writes nothing for it.                      *)
(***************************************************************************)
C19_FileRoutedToUpdate ==
    \A p \in ExcelCalls :
        LET c == call[p]
        IN  c.pc = "done" =>
              \A k \in 1..Len(c.pairs) : \A r \in LedgerRows(c.before) :
                  c.before[r][ColA] = c.pairs[k][1] =>
                      /\ sheet[r][ColB] = c.pairs[k][2]
                      /\ sheet[r][ColC] = strftime(c.day)
                      /\ sheet[r][ColD] = GenerateTrackingLink(c.pairs[k][2])

(***************************************************************************)
(* C20: a ledger whose first row has no 'Order Number' header does not     *)
(* make bulk_update_orders fail: a call that has read such a ledger goes   *)
(* on to its writes or returns its counts.  The code breaks it: the        *)
(* column lookup raises KeyError as soon as the table has a row, and the   *)
(* call ends in an error.                                                  *)
(***************************************************************************)
C20_MissingColumnTolerated ==
    \A p \in BulkCalls :
        LET c == call[p]
        IN  /\ ~c.read_failed
            /\ c.before # <<>>
            /\ \A i \in 1..Len(c.before[1]) : c.before[1][i] # <<"Order Number">>
            /\ c.ops = <<"read">>
            => c.pc # "failed"

(***************************************************************************)
(* C21: in one bulk_update_orders call no ledger row is the target of two  *)
(* update entries (two B/C/D triples of the batch).  The code breaks it:   *)
(* the service does not dedup, and the handler's dedup runs before the     *)
(* second '#' is stripped, so the lines '1 B' and '##1 A' both become an   *)
(* update of the row of order 1.                                           *)
(***************************************************************************)
C21_OneWriteGroupPerRow ==
    \A p \in BulkCalls :
        LET updates == call[p].plan.rows_to_update
        IN  \A i, j \in 1..Len(updates) : i # j => updates[i].row # updates[j].row

\* the link the ledger is to hold for tracking number T
LinkOf(T) == IF T = <<>> THEN <<>> ELSE <<"https://parcelsapp.com/en/tracking/">> \o T

(***************************************************************************)
(* C22: the link of every new row and of every update entry a call plans   *)
(* is 'https://parcelsapp.com/en/tracking/' followed by the tracking       *)
(* number as given (tracking numbers are not validated), and after the     *)
(* writes the sheet rows hold these links; the link of an empty tracking   *)
(* number is empty.                                                        *)
(***************************************************************************)
C22_LinkDerivation ==
    /\ GenerateTrackingLink(<<>>) = <<>>
    /\ \A T \in {<<"A">>, <<"#", " ", "/">>} : GenerateTrackingLink(T) = LinkOf(T)
    /\ \A p \in Procs :
          LET c == call[p]
          IN  /\ \A i \in 1..Len(c.plan.rows_to_add) :
                    c.plan.rows_to_add[i][ColD] = LinkOf(c.plan.rows_to_add[i][ColB])
              /\ \A i \in 1..Len(c.plan.rows_to_update) :
                    c.plan.rows_to_update[i].tracking_link
                        = LinkOf(c.plan.rows_to_update[i].tracking_number)
              /\ c.pc = "done" =>
                    /\ \A i \in 1..Len(c.plan.rows_to_update) :
                          LET r == c.plan.rows_to_update[i].row
                          IN  sheet[r][ColD] = LinkOf(sheet[r][ColB])
                    /\ \A r \in (Len(c.before) + 1)..Len(sheet) :
                          sheet[r][ColD] = LinkOf(sheet[r][ColB])

C22_Witness ==
    \E p \in Returned :
        /\ call[p].plan.updated = 1
        /\ call[p].plan.added = 1
        /\ sheet[call[p].plan.rows_to_update[1].row][ColD]
              = <<"https://parcelsapp.com/en/tracking/", "B">>
        /\ sheet[Len(sheet)][ColD] = <<"https://parcelsapp.com/en/tracking/", "A">>

(***************************************************************************)
(* C23: when a bulk_update_orders call returns its counts, added is the    *)
(* number of rows it appended (they are the last rows of the sheet),       *)
(* updated is the number of update entries of the batch it issued, and the *)
(* sheet has as many rows as at the read plus added.                       *)
(***************************************************************************)
C23_CountsMatchWrites ==
    \A p \in Returned :
        LET c == call[p]
        IN  /\ c.plan.added = Len(c.plan.rows_to_add)
            /\ c.plan.updated = Len(c.plan.rows_to_update)
            /\ c.plan.updated > 0 <=> Issued(c, "update")
            /\ c.plan.added > 0 <=> Issued(c, "append")
            /\ Len(sheet) = Len(c.before) + c.plan.added
            /\ SubSeq(sheet, Len(c.before) + 1, Len(sheet)) = c.plan.rows_to_add

C23_Witness ==
    \E p \in Returned :
        /\ call[p].plan.added = 2
        /\ Len(sheet) = Len(call[p].before) + 2

C25_RangeIsOwnRows ==
    \A p \in Procs :
        LET c == call[p]
        IN  Issued(c, "append") /\ c.pc \in {"format", "done"} =>
              /\ c.end_row <= Len(sheet)
              /\ \A i \in 1..Len(c.plan.rows_to_add) :
                    sheet[c.start_row + i - 1] = c.plan.rows_to_add[i]

NormalizedCell(cell) == StripOneHash(Strip(cell))

(***************************************************************************)
(* C27: process_excel_file returns at most one entry per normalized order  *)
(* number (trimmed, one leading '#' removed); the entry carries the        *)
(* trimmed tracking number of the last file row with that order number;    *)
(* and no entry has an empty order number or an empty tracking number.     *)
(* The code breaks it: an order cell that is '#' alone passes the          *)
(* emptiness test and becomes an entry with an empty order number.         *)
(***************************************************************************)
C27_OneEntryPerOrder ==
    excel.done =>
        LET file == excel.file
            order_data == excel.order_data
            last(O) == CHOOSE i \in 1..Len(file) :
                          /\ NormalizedCell(file[i][1]) = O
                          /\ \A j \in (i + 1)..Len(file) : NormalizedCell(file[j][1]) # O
        IN  /\ \A i, j \in 1..Len(order_data) :
                  i # j => order_data[i][1] # order_data[j][1]
            /\ \A i \in 1..Len(order_data) :
                  /\ \E r \in 1..Len(file) : NormalizedCell(file[r][1]) = order_data[i][1]
                  /\ order_data[i][2] = Strip(file[last(order_data[i][1])][2])
                  /\ Strip(order_data[i][1]) # <<>>
                  /\ Strip(order_data[i][2]) # <<>>

\* C28: after every add_carrier, update_carrier, delete_carrier and
\* add_alternative_carrier call the in-memory carrier list equals the content
\* of the carriers file, and a call whose save raised leaves the in-memory
\* list as it was before the call.
C28_MemoryEqualsFile ==
    carrier_result.op # "none" =>
        /\ carriers_file = JsonFile(carriers)
        /\ carrier_result.raised => carriers = carrier_result.before

TodosAtRest == \A p \in Procs : todo_call[p].pc = "idle"

\* C29: once the TodoService mutations that ran, overlapping or not, have all
\* returned, the todos file shows the effect of each: every todo whose
\* create_todo returned is in the file unless a delete_todo of it returned,
\* no deleted todo is in the file, and a todo whose update_todo returned
\* carries the title update_todo was given.
C29_BothEffectsPresent ==
    TodosAtRest =>
        LET todos == todos_file.data
            ids == {todos[i].id : i \in 1..Len(todos)}
        IN  /\ todos_file.valid
            /\ \A id \in todo_log.created \ todo_log.deleted : id \in ids
            /\ \A id \in todo_log.deleted : id \notin ids
            /\ \A i \in 1..Len(todos) :
                  todos[i].id \in todo_log.updated => todos[i].title = NewTitle

\* C30: an update_product call that fails because the product id is unknown
\* or because new_price <= 0 leaves the products file and the stored image
\* files exactly as they were before the call, whatever new name or new
\* image the call supplied.
C30_FailedUpdateChangesNothing ==
    product_result.error \in {"not_found", "price"} =>
        /\ products_file = product_result.products_before
        /\ image_files = product_result.images_before

\* C30 witness: a call rejected for its price that also supplied a new name
\* and an allowed new image for a product whose stored image has another name.
C30_Witness ==
    /\ product_result.error = "price"
    /\ product_result.new_name = <<"N", " ">>
    /\ product_result.new_image = <<"a", "PNG">>
    /\ <<product_result.product_id, "jpg">> \in product_result.images_before
    /\ products_file = product_result.products_before
    /\ image_files = product_result.images_before

====
